---- MODULE Spec2Model ----
(***************************************************************************)
(* Model of recall (src/src-tauri/src/lib.rs): the clipboard history       *)
(* store (the JSON-lines log, save_entry, toggle_pin, clear_all_history    *)
(* and get_history, each reading or rewriting the whole log), the          *)
(* clipboard monitor and the Option double-tap listener.                   *)
(*                                                                         *)
(* Spec        the store's handlers run one after another and the file     *)
(*             system does what it is asked.                               *)
(* SpecIo      the same, where any open, writeln or remove_file may fail.  *)
(* SpecPin     Spec with three clipboard texts.                            *)
(* SpecConc    the watcher thread (save_entry) and the UI thread           *)
(*             (toggle_pin or clear_all_history) interleave at their load  *)
(*             and save steps; the source takes no lock around them.       *)
(* SpecLoad    load_history and get_history on any log, damaged lines      *)
(*             included.                                                   *)
(* SpecWatch   the loop of start_clipboard_monitor and the events it       *)
(*             emits.                                                      *)
(* SpecStop    the loop next to the quit menu item of main.rs, which       *)
(*             clears `running`; the monitor thread is weakly fair.        *)
(* SpecClip    the loop next to copy_to_clipboard and toggle_pin.          *)
(* SpecCrash   Spec where the process may stop inside save_history.        *)
(* SpecGesture the two NSEvent monitors of start_hotkey_listener, each     *)
(*             block a step.                                               *)
(* SpecLocks   the two blocks on two threads, a step per lock() call.      *)
(*                                                                         *)
(* Timestamps are readings of Local::now() taken by the watcher at least   *)
(* one 500 ms poll apart; the model takes each reading to be larger than   *)
(* every earlier one.                                                      *)
(***************************************************************************)
EXTENDS Integers, Sequences, FiniteSets, TLC

\* The cap of the store.  The source sets 200 (lib.rs:40); the model scales
\* it down so that the trimming branch of save_entry is reached.
MAX_HISTORY_ENTRIES == 3

\* Number of clock readings (hence of save_entry calls) in a behaviour.
MaxClock == 5

\* Number of lines of a log that load_history is given in SpecLoad.
MaxLines == 3

\* Number of loop iterations of the clipboard monitor (SpecWatch, SpecStop,
\* SpecClip).
MaxPolls == 4

\* Number of key events delivered to the two blocks in SpecLocks.
MaxHandled == 5

\* Number of key events delivered to the hotkey listener in SpecGesture.
MaxEvents == 6

\* Two releases of Option less than this many ms apart are a double tap.
DOUBLE_TAP_THRESHOLD_MS == 400

\* The time in ms between one FlagsChanged event and the next.
Delays == {100, 300}

\* The clipboard texts the watcher may read, all non-empty
\* (start_clipboard_monitor never records an empty text, lib.rs:215).
Contents == {"a", "b", "c", "d", "e"}

VARIABLES
    file,       \* the lines of clipboard_history.jsonl, oldest first
    exists,     \* whether clipboard_history.jsonl exists
    clock,      \* the latest reading of Local::now()
    last,       \* the handler that ran last, its arguments and its result
    w,          \* SpecConc: the watcher thread inside save_entry
    u,          \* SpecConc: the UI thread inside toggle_pin / clear_all_history
    base,       \* SpecConc: the log when the current pair of calls began
    response,   \* SpecLoad: what the last load_history or get_history returned
    was_pressed,    \* OPTION_WAS_PRESSED
    last_release,   \* LAST_OPTION_RELEASE
    last_trigger,   \* LAST_TRIGGER
    now,            \* the latest reading of Instant::now(), in ms
    events,         \* the key events delivered so far, oldest first
    shown,          \* the instants at which "show-window-at-mouse" was emitted
    last_content,   \* the watcher's last_content
    emitted,        \* the payloads of the "clipboard-changed" events emitted
    polled,         \* what the watcher's last loop iteration did
    polls,          \* what every loop iteration of the watcher read and did
    wpc,            \* where the watcher thread is: "head", "body", "exited"
    running,        \* the AtomicBool `running`
    clipboard,      \* the text the system clipboard holds
    holder,         \* SpecLocks: which handler holds each Mutex
    th              \* SpecLocks: where each handler is inside its block

vars == <<file, exists, clock, last, w, u, base, response,
          was_pressed, last_release, last_trigger, now, events, shown,
          last_content, emitted, polled, polls, wpc, running, clipboard,
          holder, th>>

\* the state of the hotkey listener and of the clipboard monitor
gesture_vars ==
    <<was_pressed, last_release, last_trigger, now, events, shown,
      holder, th>>

watch_vars ==
    <<last_content, emitted, polled, polls, wpc, running, clipboard>>

\* what the store's handlers never touch
rest == <<response, gesture_vars, watch_vars>>

----------------------------------------------------------------------------
\* Sequence helpers

Range(s) == {s[i] : i \in 1..Len(s)}

Indices(s) == 1..Len(s)

\* Vec::iter().filter(p).collect() for the two predicates the source uses
pinned_of(history) == SelectSeq(history, LAMBDA e : e.pinned)

unpinned_of(history) == SelectSeq(history, LAMBDA e : ~e.pinned)

\* history.sort_by(|a, b| a.timestamp.cmp(&b.timestamp)): a stable sort
RECURSIVE insert_sorted(_, _)
insert_sorted(sorted, e) ==
    IF sorted = <<>> THEN <<e>>
    ELSE IF sorted[Len(sorted)].timestamp <= e.timestamp THEN Append(sorted, e)
    ELSE Append(insert_sorted(SubSeq(sorted, 1, Len(sorted) - 1), e),
                sorted[Len(sorted)])

\* Mutant of sort_by_timestamp: the Vec is left as it was rebuilt
not_sorted(history) == history

RECURSIVE sort_by_timestamp(_)
sort_by_timestamp(history) ==
    IF history = <<>> THEN <<>>
    ELSE insert_sorted(sort_by_timestamp(SubSeq(history, 1, Len(history) - 1)),
                       history[Len(history)])

----------------------------------------------------------------------------
\* The persisted form of an entry: one JSON object per line

\* DateTime::to_rfc3339, the text the timestamp is compared by in toggle_pin
to_rfc3339(t) == <<"rfc3339", t>>

\* serde_json::to_string(e), written by writeln!: a line of valid UTF-8 that
\* parses back
to_string(e) ==
    [utf8 |-> TRUE, json |-> TRUE, timestamp |-> e.timestamp,
     content |-> e.content, pinned |-> e.pinned]

\* serde_json::from_str(&line).ok(): the entry of a line that parses
from_str(line) ==
    [timestamp |-> line.timestamp, content |-> line.content,
     pinned |-> line.pinned]

\* reader.lines().map_while(Result::ok): the lines up to the first one that
\* lines() fails to read (it is not valid UTF-8)
readable(f) ==
    IF \A i \in 1..Len(f) : f[i].utf8 THEN f
    ELSE LET first == CHOOSE i \in 1..Len(f) :
                          ~f[i].utf8 /\ \A j \in 1..(i - 1) : f[j].utf8
         IN  SubSeq(f, 1, first - 1)

\* load_history: of the lines read, every one that parses, in file order; a
\* file that cannot be opened (File::open fails) gives the empty Vec
load_history(f, ex) ==
    IF ~ex THEN <<>>
    ELSE LET parsed == SelectSeq(readable(f), LAMBDA line : line.json)
         IN  [i \in 1..Len(parsed) |-> from_str(parsed[i])]

----------------------------------------------------------------------------
\* save_entry, the part before save_history

\* Mutant of existing_pinned: the pin of the replaced entry is forgotten
forget_pinned(history, content) == FALSE

\* history.iter().find(|e| e.content == entry.content).map(|e| e.pinned)
\*     .unwrap_or(false)
existing_pinned(history, content) ==
    IF \E i \in Indices(history) : history[i].content = content
    THEN LET i == CHOOSE i \in Indices(history) :
                      /\ history[i].content = content
                      /\ \A j \in 1..(i - 1) : history[j].content # content
         IN  history[i].pinned
    ELSE FALSE

\* Mutant of retain: the entry with the same content is left in place
retain_all(history, content) == history

\* history.retain(|e| e.content != entry.content)
retain(history, content) == SelectSeq(history, LAMBDA e : e.content # content)

\* Mutant of unpinned_limit: pinned entries do not count against the cap
limit_without_pins(pinned_len) == MAX_HISTORY_ENTRIES

\* MAX_HISTORY_ENTRIES.saturating_sub(pinned.len())
unpinned_limit(pinned_len) ==
    IF MAX_HISTORY_ENTRIES >= pinned_len
    THEN MAX_HISTORY_ENTRIES - pinned_len ELSE 0

\* Mutant of keep_newest: nothing is evicted
keep_all(unpinned, limit) == unpinned

\* Mutant of keep_newest: the oldest unpinned entries are kept
keep_oldest(unpinned, limit) ==
    IF Len(unpinned) > limit THEN SubSeq(unpinned, 1, limit) ELSE unpinned

\* if unpinned.len() > limit { unpinned = unpinned.split_off(len - limit) }
keep_newest(unpinned, limit) ==
    IF Len(unpinned) > limit
    THEN SubSeq(unpinned, Len(unpinned) - limit + 1, Len(unpinned))
    ELSE unpinned

\* Mutant of trim: the newest entries are kept whether pinned or not
trim_any(history) ==
    IF Len(history) > MAX_HISTORY_ENTRIES
    THEN SubSeq(history, Len(history) - MAX_HISTORY_ENTRIES + 1, Len(history))
    ELSE history

\* the block under `if history.len() > MAX_HISTORY_ENTRIES`
trim(history) ==
    IF Len(history) > MAX_HISTORY_ENTRIES
    THEN LET pinned == pinned_of(history)
             unpinned == keep_newest(unpinned_of(history),
                                     unpinned_limit(Len(pinned)))
         IN  sort_by_timestamp(unpinned \o pinned)
    ELSE history

\* history.push(ClipboardEntry { timestamp, content, pinned: existing_pinned })
push_entry(history, t, content, was_pinned) ==
    Append(history, [timestamp |-> t, content |-> content, pinned |-> was_pinned])

\* the Vec save_entry hands to save_history
save_entry_history(history, t, content) ==
    trim(push_entry(retain(history, content), t, content,
                    existing_pinned(history, content)))

----------------------------------------------------------------------------
\* toggle_pin and clear_all_history, the part before save_history

\* history.iter_mut().find(|e| e.timestamp.to_rfc3339() == timestamp)
find_by_timestamp(history, key) ==
    IF \E i \in Indices(history) : to_rfc3339(history[i].timestamp) = key
    THEN CHOOSE i \in Indices(history) :
             /\ to_rfc3339(history[i].timestamp) = key
             /\ \A j \in 1..(i - 1) : to_rfc3339(history[j].timestamp) # key
    ELSE 0

\* Mutant of set_pinned: the flag of every entry is set
set_pinned_all(history, i, pinned) ==
    [n \in DOMAIN history |-> [history[n] EXCEPT !.pinned = pinned]]

\* Mutant of set_pinned: the flag is flipped, whatever was asked for
flip_pinned(history, i, pinned) ==
    [history EXCEPT ![i] = [@ EXCEPT !.pinned = ~@]]

\* entry.pinned = pinned
set_pinned(history, i, pinned) ==
    [history EXCEPT ![i] = [@ EXCEPT !.pinned = pinned]]

\* Mutant of clear_keep: the pinned entries are cleared too
clear_keep_none(history) == <<>>

\* history.into_iter().filter(|e| e.pinned).collect()
clear_keep(history) == pinned_of(history)

\* Mutant of reverse: the entries are returned in storage order
not_reversed(history) == history

\* history.reverse()
reverse(history) ==
    [i \in 1..Len(history) |-> history[Len(history) + 1 - i]]

----------------------------------------------------------------------------
\* save_history: open with create+write+truncate, then one writeln per entry.
\* `fail` numbers the I/O call that fails: 0 none, 1 the open (nothing is
\* truncated), k + 1 the k-th writeln (the open truncated the file and k - 1
\* lines were written).  A partly written last line does not parse and
\* load_history skips it, so it is left out of `file`.

Failures(history) == 0..(Len(history) + 1)

\* the lines written before the failure
written(history, fail) ==
    IF fail = 0 THEN Len(history) ELSE fail - 2

save_history_file(f, history, fail) ==
    IF fail = 1 THEN f
    ELSE [i \in 1..written(history, fail) |-> to_string(history[i])]

save_history_exists(ex, fail) == IF fail = 1 THEN ex ELSE TRUE

save_history_res(fail) == IF fail = 0 THEN "Ok" ELSE "IoError"

----------------------------------------------------------------------------
\* State after start-up with no log yet, no handler has run

\* `last`: the handler that ran last, its result, whether the content or the
\* timestamp it was given matched an entry, and how many entries it removed
NoCall == [op |-> "none", res |-> "none", existed |-> FALSE, dropped |-> 0]

\* Option<T>
None == <<>>

Some(x) == <<x>>

\* no load_history or get_history has returned yet
NoResponse == [op |-> "none", entries |-> <<>>, max_entries |-> 0]

\* the clipboard monitor has not polled yet
NoPoll == [attempted |-> FALSE, res |-> "none"]

\* the Mutexes of start_hotkey_listener
Locks ==
    {"OPTION_WAS_PRESSED", "LAST_OPTION_RELEASE", "LAST_TRIGGER", "APP_HANDLE"}

\* the two monitor blocks
Handlers == {"global", "local"}

\* a block that is not running
NotHandling ==
    [pc |-> "idle", k |-> 0, option_pressed |-> FALSE, at |-> 0,
     copy |-> <<>>, next |-> <<>>]

Idle == [pc |-> "idle", op |-> "none", res |-> "none", content |-> "",
         key |-> 0, flag |-> FALSE, history |-> <<>>]

Init ==
    /\ file = <<>>
    /\ exists = FALSE
    /\ clock = 0
    /\ last = NoCall
    /\ w = Idle
    /\ u = Idle
    /\ base = <<>>
    /\ response = NoResponse
    /\ was_pressed = FALSE
    /\ last_release = None
    /\ last_trigger = None
    /\ now = 0
    /\ events = <<>>
    /\ shown = <<>>
    /\ last_content = None
    /\ emitted = <<>>
    /\ polled = NoPoll
    /\ polls = <<>>
    /\ wpc = "head"
    /\ running = TRUE
    /\ clipboard = ""
    /\ holder = [m \in Locks |-> "none"]
    /\ th = [h \in Handlers |-> NotHandling]

----------------------------------------------------------------------------
\* The handlers, each as one step

\* save_entry(&ClipboardEntry { timestamp: Local::now(), content, pinned: false })
save_entry(content, fail) ==
    LET t == clock + 1
        history == load_history(file, exists)
        out == save_entry_history(history, t, content)
    IN  /\ clock < MaxClock
        /\ clock' = t
        /\ fail \in Failures(out)
        /\ file' = save_history_file(file, out, fail)
        /\ exists' = save_history_exists(exists, fail)
        /\ last' = [op |-> "save_entry", res |-> save_history_res(fail),
                    existed |-> \E e \in Range(history) : e.content = content,
                    dropped |-> Len(retain(history, content)) + 1 - Len(out)]
        /\ UNCHANGED <<w, u, base>>
        /\ UNCHANGED rest

\* toggle_pin(timestamp, pinned), timestamp = to_rfc3339(t)
toggle_pin(t, pinned, fail) ==
    LET history == load_history(file, exists)
        i == find_by_timestamp(history, to_rfc3339(t))
        out == set_pinned(history, i, pinned)
        call == [NoCall EXCEPT !.op = "toggle_pin", !.existed = (i # 0)]
    IN  /\ IF i = 0
           THEN /\ fail = 0
                /\ last' = [call EXCEPT !.res = "NotFound"]
                /\ UNCHANGED <<file, exists>>
           ELSE /\ fail \in Failures(out)
                /\ file' = save_history_file(file, out, fail)
                /\ exists' = save_history_exists(exists, fail)
                /\ last' = [call EXCEPT !.res = save_history_res(fail)]
        /\ UNCHANGED <<clock, w, u, base>>
        /\ UNCHANGED rest

\* clear_all_history(); with nothing pinned the file is removed if it exists
\* (fail = 1: fs::remove_file fails)
clear_all_history(fail) ==
    LET history == load_history(file, exists)
        pinned == clear_keep(history)
        call == [NoCall EXCEPT !.op = "clear_all_history",
                               !.dropped = Len(history) - Len(pinned)]
    IN  /\ IF pinned = <<>>
           THEN IF exists
                THEN /\ fail \in {0, 1}
                     /\ file' = IF fail = 1 THEN file ELSE <<>>
                     /\ exists' = (fail = 1)
                     /\ last' = [call EXCEPT !.res = save_history_res(fail)]
                ELSE /\ fail = 0
                     /\ last' = [call EXCEPT !.res = "Ok"]
                     /\ UNCHANGED <<file, exists>>
           ELSE /\ fail \in Failures(pinned)
                /\ file' = save_history_file(file, pinned, fail)
                /\ exists' = save_history_exists(exists, fail)
                /\ last' = [call EXCEPT !.res = save_history_res(fail)]
        /\ UNCHANGED <<clock, w, u, base>>
        /\ UNCHANGED rest

\* Spec: the file system does what it is asked
Next ==
    \/ \E content \in Contents : save_entry(content, 0)
    \/ \E t \in 1..MaxClock, pinned \in BOOLEAN : toggle_pin(t, pinned, 0)
    \/ clear_all_history(0)

Spec == Init /\ [][Next]_vars

\* SpecIo: any open, writeln or remove_file may fail
AnyFailure == 0..(MAX_HISTORY_ENTRIES + 2)

NextIo ==
    \/ \E content \in Contents, fail \in AnyFailure : save_entry(content, fail)
    \/ \E t \in 1..MaxClock, pinned \in BOOLEAN, fail \in AnyFailure :
           toggle_pin(t, pinned, fail)
    \/ \E fail \in AnyFailure : clear_all_history(fail)

SpecIo == Init /\ [][NextIo]_vars

\* SpecPin: the handlers as in Spec, with three clipboard texts
PinContents == {"a", "b", "c"}

NextPin ==
    \/ \E content \in PinContents : save_entry(content, 0)
    \/ \E t \in 1..MaxClock, pinned \in BOOLEAN : toggle_pin(t, pinned, 0)
    \/ clear_all_history(0)

SpecPin == Init /\ [][NextPin]_vars

----------------------------------------------------------------------------
\* SpecCrash: the process may stop (a kill, a power cut) while a handler is
\* inside save_history, after the open with truncate(true) and before the
\* last writeln!; it is then started again and finds the log as the stopped
\* call left it.

Calls ==
    {[op |-> "save_entry", content |-> c, key |-> 0, flag |-> FALSE] :
         c \in PinContents}
    \cup {[op |-> "toggle_pin", content |-> "", key |-> t, flag |-> p] :
              t \in 1..MaxClock, p \in BOOLEAN}
    \cup {[op |-> "clear_all_history", content |-> "", key |-> 0,
            flag |-> FALSE]}

\* what the handler hands to save_history, None if it does not call it:
\* toggle_pin returns before on an unknown timestamp, clear_all_history
\* calls fs::remove_file when nothing is pinned
to_save(call) ==
    LET history == load_history(file, exists)
        i == find_by_timestamp(history, to_rfc3339(call.key))
    IN  IF call.op = "save_entry"
        THEN Some(save_entry_history(history, clock + 1, call.content))
        ELSE IF call.op = "toggle_pin"
        THEN IF i = 0 THEN None ELSE Some(set_pinned(history, i, call.flag))
        ELSE IF clear_keep(history) = <<>> THEN None
             ELSE Some(clear_keep(history))

\* the process stops inside save_history when `at` of the lines are written
killed(call, at) ==
    /\ to_save(call) # None
    /\ at \in 0..(Len(to_save(call)[1]) - 1)
    /\ file' = [i \in 1..at |-> to_string(to_save(call)[1][i])]
    /\ exists' = TRUE
    /\ IF call.op = "save_entry"
       THEN clock < MaxClock /\ clock' = clock + 1
       ELSE clock' = clock
    /\ last' = [NoCall EXCEPT !.op = call.op, !.res = "Killed"]
    /\ UNCHANGED <<w, u, base>>
    /\ UNCHANGED rest

NextCrash ==
    \/ \E content \in PinContents : save_entry(content, 0)
    \/ \E t \in 1..MaxClock, pinned \in BOOLEAN : toggle_pin(t, pinned, 0)
    \/ clear_all_history(0)
    \/ \E call \in Calls, at \in 0..MAX_HISTORY_ENTRIES : killed(call, at)

SpecCrash == Init /\ [][NextCrash]_vars

----------------------------------------------------------------------------
\* SpecWatch: the loop of start_clipboard_monitor, its head and its body a
\* step each, next to clear_all_history called from the UI.  `read` is what
\* clipboard.get_text() returns: None for Err, Some(text) for Ok(text), the
\* text possibly empty.  `fail` is the I/O call of save_history that fails.

Texts == {"", "a", "b", "c"}

Reads == {None} \cup {Some(text) : text \in Texts}

\* Mutant of emit_after: the event is emitted whatever save_entry returned
emit_always(events_so_far, res, entry) == Append(events_so_far, entry)

\* if let Err(e) = save_entry(&entry) { log } else { emit("clipboard-changed") }
emit_after(events_so_far, res, entry) ==
    IF res = "Ok" THEN Append(events_so_far, entry) ELSE events_so_far

\* Mutant of is_new: every text read counts as new
always_new(last_seen, current) == TRUE

\* let is_new = match &last_content { Some(last) => last != &current, None => true }
is_new(last_seen, current) ==
    IF last_seen = None THEN TRUE ELSE last_seen[1] # current

\* Mutant of is_empty: no text counts as empty
never_empty(current) == FALSE

\* current.is_empty()
is_empty(current) == current = ""

\* Mutant of remember: the text is remembered only when it was saved
remember_saved(last_seen, res, current) ==
    IF res = "Ok" THEN Some(current) ELSE last_seen

\* last_content = Some(current), after save_entry whatever it returned
remember(last_seen, res, current) == Some(current)

\* Mutant of keeps_running: the loop never looks at the flag
loops_forever(flag) == TRUE

\* while running.load(Ordering::Relaxed)
keeps_running(flag) == flag

\* what `polls` records of a loop iteration: what get_text() returned, the
\* last_content it met, whether save_entry was called, what it returned, the
\* reading of Local::now(), and the flag `running` while the body ran
Poll(read, attempted, res, at) ==
    [read |-> read, last_seen |-> last_content, attempted |-> attempted,
     res |-> res, at |-> at, running |-> running]

\* the head of the `while` loop (lib.rs:208): the thread enters the body or
\* leaves the loop and ends.  The iterations are counted in `polls`.
loop_head ==
    /\ wpc = "head"
    /\ IF keeps_running(running)
       THEN /\ Len(polls) < MaxPolls
            /\ clock < MaxClock
            /\ wpc' = "body"
       ELSE wpc' = "exited"
    /\ UNCHANGED <<file, exists, clock, last, w, u, base, response>>
    /\ UNCHANGED gesture_vars
    /\ UNCHANGED <<last_content, emitted, polled, polls, running, clipboard>>

\* the body of the `while running.load(..)` loop (lib.rs:209-232), the sleep
\* at its end included.  A text read from the clipboard is the text the
\* clipboard holds.
poll(read, fail) ==
    /\ wpc = "body"
    /\ wpc' = "head"
    /\ clipboard' = IF read = None THEN clipboard ELSE read[1]
    /\ IF read # None /\ is_new(last_content, read[1]) /\ ~is_empty(read[1])
       THEN LET t == clock + 1
                current == read[1]
                entry == [timestamp |-> t, content |-> current,
                          pinned |-> FALSE]
                history == load_history(file, exists)
                out == save_entry_history(history, t, current)
                res == save_history_res(fail)
            IN  /\ clock < MaxClock
                /\ clock' = t
                /\ fail \in Failures(out)
                /\ file' = save_history_file(file, out, fail)
                /\ exists' = save_history_exists(exists, fail)
                /\ emitted' = emit_after(emitted, res, entry)
                /\ last_content' = remember(last_content, res, current)
                /\ polled' = [attempted |-> TRUE, res |-> res]
                /\ polls' = Append(polls, Poll(read, TRUE, res, t))
       ELSE /\ fail = 0
            /\ polled' = [attempted |-> FALSE, res |-> "none"]
            /\ polls' = Append(polls, Poll(read, FALSE, "none", clock))
            /\ UNCHANGED <<file, exists, clock, last_content, emitted>>
    /\ UNCHANGED <<last, w, u, base, response, gesture_vars, running>>

NextWatch ==
    \/ loop_head
    \/ \E read \in Reads, fail \in AnyFailure : poll(read, fail)
    \/ clear_all_history(0)

SpecWatch == Init /\ [][NextWatch]_vars

----------------------------------------------------------------------------
\* SpecStop: the clipboard monitor and the quit menu item.  Only main.rs
\* stores false into `running` (main.rs:454-458); lib.rs creates the flag
\* true (lib.rs:476) and never changes it.  The monitor is a thread of its
\* own: the scheduler keeps running it, get_text() and save_entry return
\* and the sleep of 500 ms ends, hence the weak fairness of its steps.

\* running.store(false, Ordering::Relaxed)
quit ==
    /\ running
    /\ running' = FALSE
    /\ UNCHANGED <<file, exists, clock, last, w, u, base, response>>
    /\ UNCHANGED gesture_vars
    /\ UNCHANGED <<last_content, emitted, polled, polls, wpc, clipboard>>

\* a step of the monitor thread
monitor ==
    \/ loop_head
    \/ \E read \in Reads, fail \in AnyFailure : poll(read, fail)

NextStop ==
    \/ monitor
    \/ quit

SpecStop == Init /\ [][NextStop]_vars /\ WF_vars(monitor)

----------------------------------------------------------------------------
\* SpecClip: the clipboard monitor next to the commands copy_to_clipboard
\* and toggle_pin, with no other application writing the clipboard: what
\* get_text() returns, when it returns a text, is what copy_to_clipboard
\* put there last.

\* copy_to_clipboard(content); ok: Clipboard::new() and set_text succeed
copy_to_clipboard(content, ok) ==
    /\ clipboard' = IF ok THEN content ELSE clipboard
    /\ last' = [NoCall EXCEPT !.op = "copy_to_clipboard",
                              !.res = IF ok THEN "Ok" ELSE "ClipboardError"]
    /\ UNCHANGED <<file, exists, clock, w, u, base, response>>
    /\ UNCHANGED gesture_vars
    /\ UNCHANGED <<last_content, emitted, polled, polls, wpc, running>>

NextClip ==
    \/ loop_head
    \/ \E read \in {None, Some(clipboard)} : poll(read, 0)
    \/ \E content \in Texts, ok \in BOOLEAN : copy_to_clipboard(content, ok)
    \/ \E t \in 1..MaxClock, pinned \in BOOLEAN : toggle_pin(t, pinned, 0)

SpecClip == Init /\ [][NextClip]_vars

----------------------------------------------------------------------------
\* SpecLoad: load_history and get_history on any log of up to MaxLines lines,
\* among them lines that are not JSON and lines that are not UTF-8 (a log
\* damaged or written by something else; the handlers only write lines that
\* parse).

\* a line of valid UTF-8 that serde_json does not parse as a ClipboardEntry
Garbage ==
    [utf8 |-> TRUE, json |-> FALSE, timestamp |-> 0, content |-> "",
     pinned |-> FALSE]

\* a line with bytes that are not valid UTF-8: lines() yields Err for it
Unreadable ==
    [utf8 |-> FALSE, json |-> FALSE, timestamp |-> 0, content |-> "",
     pinned |-> FALSE]

LogLines ==
    {to_string([timestamp |-> t, content |-> c, pinned |-> p]) :
         t \in 1..2, c \in {"a", "b"}, p \in BOOLEAN}
        \cup {Garbage, Unreadable}

Logs == UNION {[1..n -> LogLines] : n \in 0..MaxLines}

InitLoad ==
    /\ file \in Logs
    /\ exists \in BOOLEAN
    /\ ~exists => file = <<>>
    /\ clock = 0
    /\ last = NoCall
    /\ w = Idle
    /\ u = Idle
    /\ base = <<>>
    /\ response = NoResponse
    /\ was_pressed = FALSE
    /\ last_release = None
    /\ last_trigger = None
    /\ now = 0
    /\ events = <<>>
    /\ shown = <<>>
    /\ last_content = None
    /\ emitted = <<>>
    /\ polled = NoPoll
    /\ polls = <<>>
    /\ wpc = "head"
    /\ running = TRUE
    /\ clipboard = ""
    /\ holder = [m \in Locks |-> "none"]
    /\ th = [h \in Handlers |-> NotHandling]

\* load_history(); open_ok: File::open(&path) succeeds on a file that exists
load(open_ok) ==
    /\ response' = [NoResponse EXCEPT
                        !.op = "load_history",
                        !.entries = load_history(file, exists /\ open_ok)]
    /\ UNCHANGED <<file, exists, clock, last, w, u, base>>
    /\ UNCHANGED <<gesture_vars, watch_vars>>

\* get_history(): HistoryResponse { entries: reversed history, max_entries }
get_history(open_ok) ==
    LET history == reverse(load_history(file, exists /\ open_ok))
    IN  /\ response' = [op |-> "get_history", entries |-> history,
                        max_entries |-> MAX_HISTORY_ENTRIES]
        /\ UNCHANGED <<file, exists, clock, last, w, u, base>>
        /\ UNCHANGED <<gesture_vars, watch_vars>>

NextLoad ==
    \/ \E open_ok \in BOOLEAN : load(open_ok)
    \/ \E open_ok \in BOOLEAN : get_history(open_ok)

SpecLoad == InitLoad /\ [][NextLoad]_vars

----------------------------------------------------------------------------
\* SpecGesture: start_hotkey_listener.  The two NSEvent monitors are
\* registered for NSEventMask::FlagsChanged and share the statics
\* OPTION_WAS_PRESSED, LAST_OPTION_RELEASE and LAST_TRIGGER; an event reaches
\* global_block when another application has the focus and local_block when
\* this one has.  option_pressed is whether the event's modifier flags hold
\* Option; dt is the time since the event before.  `events` records, for
\* every event, when it came and the state it met.

Event(kind, channel, option_pressed, at) ==
    [kind |-> kind, channel |-> channel, option_pressed |-> option_pressed,
     at |-> at, was_pressed |-> was_pressed, pending |-> last_release]

\* Mutant of within_threshold: the comparison is turned around
beyond_threshold(t, release) == t - release > DOUBLE_TAP_THRESHOLD_MS

\* Mutant of within_threshold: a release exactly at the threshold counts
within_or_at_threshold(t, release) == t - release <= DOUBLE_TAP_THRESHOLD_MS

\* elapsed < DOUBLE_TAP_THRESHOLD_MS, elapsed = now.duration_since(last)
within_threshold(t, release) == t - release < DOUBLE_TAP_THRESHOLD_MS

\* the statics the two blocks lock: OPTION_WAS_PRESSED, LAST_OPTION_RELEASE
\* and LAST_TRIGGER; `fired` is whether the block emitted the event
gesture ==
    [was_pressed |-> was_pressed, last_release |-> last_release,
     last_trigger |-> last_trigger, fired |-> FALSE]

\* the body of global_block (lib.rs:391-410) on the statics s, at instant t
global_step(s, option_pressed, t) ==
    LET double_tap == /\ s.last_release # None
                      /\ within_threshold(t, s.last_release[1])
    IN  IF option_pressed
        THEN [s EXCEPT !.was_pressed = TRUE, !.fired = FALSE]
        ELSE IF s.was_pressed
        THEN IF double_tap
             THEN [was_pressed |-> FALSE, last_release |-> None,
                   last_trigger |-> Some(t), fired |-> TRUE]
             ELSE [was_pressed |-> FALSE, last_release |-> Some(t),
                   last_trigger |-> s.last_trigger, fired |-> FALSE]
        ELSE [s EXCEPT !.fired = FALSE]

\* the body of local_block (lib.rs:428-447): `*last_release = Some(now)` is
\* the else branch of `if let Some(last) = *last_release`
local_step(s, option_pressed, t) ==
    LET double_tap == /\ s.last_release # None
                      /\ within_threshold(t, s.last_release[1])
    IN  IF option_pressed
        THEN [s EXCEPT !.was_pressed = TRUE, !.fired = FALSE]
        ELSE IF s.was_pressed
        THEN IF s.last_release # None
             THEN IF double_tap
                  THEN [was_pressed |-> FALSE, last_release |-> None,
                        last_trigger |-> Some(t), fired |-> TRUE]
                  ELSE [s EXCEPT !.was_pressed = FALSE, !.fired = FALSE]
             ELSE [was_pressed |-> FALSE, last_release |-> Some(t),
                   last_trigger |-> s.last_trigger, fired |-> FALSE]
        ELSE [s EXCEPT !.fired = FALSE]

\* global_block (lib.rs:382-411)
global_block(option_pressed, dt) ==
    LET t == now + dt
        s == global_step(gesture, option_pressed, t)
    IN  /\ Len(events) < MaxEvents
        /\ now' = t
        /\ was_pressed' = s.was_pressed
        /\ last_release' = s.last_release
        /\ last_trigger' = s.last_trigger
        /\ shown' = IF s.fired THEN Append(shown, t) ELSE shown
        /\ events' = Append(events,
                            Event("flags", "global", option_pressed, t))
        /\ UNCHANGED <<file, exists, clock, last, w, u, base, response>>
        /\ UNCHANGED <<watch_vars, holder, th>>

\* local_block (lib.rs:419-450)
local_block(option_pressed, dt) ==
    LET t == now + dt
        s == local_step(gesture, option_pressed, t)
    IN  /\ Len(events) < MaxEvents
        /\ now' = t
        /\ was_pressed' = s.was_pressed
        /\ last_release' = s.last_release
        /\ last_trigger' = s.last_trigger
        /\ shown' = IF s.fired THEN Append(shown, t) ELSE shown
        /\ events' = Append(events,
                            Event("flags", "local", option_pressed, t))
        /\ UNCHANGED <<file, exists, clock, last, w, u, base, response>>
        /\ UNCHANGED <<watch_vars, holder, th>>

\* the press of a key that is not a modifier: a KeyDown event, which neither
\* monitor's mask matches, so no block runs and Instant::now() is not read
key_down ==
    /\ Len(events) < MaxEvents
    /\ events' = Append(events, Event("key", "none", FALSE, now))
    /\ UNCHANGED <<was_pressed, last_release, last_trigger, now, shown>>
    /\ UNCHANGED <<file, exists, clock, last, w, u, base, response>>
    /\ UNCHANGED <<watch_vars, holder, th>>

NextGesture ==
    \/ \E option_pressed \in BOOLEAN, dt \in Delays :
           global_block(option_pressed, dt)
    \/ \E option_pressed \in BOOLEAN, dt \in Delays :
           local_block(option_pressed, dt)
    \/ key_down

SpecGesture == Init /\ [][NextGesture]_vars

----------------------------------------------------------------------------
\* SpecLocks: global_block and local_block on two threads, a step for every
\* lock() and for what happens between them.  A block locks the three
\* statics on entry, reads the clock and the statics, locks APP_HANDLE for
\* the emit when it detects a double tap, assigns the statics and drops its
\* guards on return.

\* Mutant of lock_order: local_block locks the statics in the opposite order
opposite_order(h) ==
    IF h = "local"
    THEN <<"LAST_TRIGGER", "LAST_OPTION_RELEASE", "OPTION_WAS_PRESSED">>
    ELSE <<"OPTION_WAS_PRESSED", "LAST_OPTION_RELEASE", "LAST_TRIGGER">>

\* the order of the lock() calls on entry (lib.rs:387-389, 424-426)
lock_order(h) ==
    <<"OPTION_WAS_PRESSED", "LAST_OPTION_RELEASE", "LAST_TRIGGER">>

\* the body of the block h
step_of(h, s, option_pressed, t) ==
    IF h = "global" THEN global_step(s, option_pressed, t)
    ELSE local_step(s, option_pressed, t)

\* the blocks that are running
Handling == {h \in Handlers : th[h].pc # "idle"}

\* an NSEvent is delivered to the block h
deliver(h, option_pressed) ==
    /\ th[h].pc = "idle"
    /\ Len(events) + Cardinality(Handling) < MaxHandled
    /\ th' = [th EXCEPT ![h] = [NotHandling EXCEPT
                                   !.pc = "lock", !.k = 1,
                                   !.option_pressed = option_pressed]]
    /\ UNCHANGED <<was_pressed, last_release, last_trigger, now, events,
                   shown, holder>>
    /\ UNCHANGED <<file, exists, clock, last, w, u, base, response>>
    /\ UNCHANGED watch_vars

\* X.lock().unwrap() of the k-th static: the thread waits while it is held
acquire(h) ==
    /\ th[h].pc = "lock"
    /\ holder[lock_order(h)[th[h].k]] = "none"
    /\ holder' = [holder EXCEPT ![lock_order(h)[th[h].k]] = h]
    /\ th' = [th EXCEPT ![h] = IF th[h].k < 3
                               THEN [@ EXCEPT !.k = @ + 1]
                               ELSE [@ EXCEPT !.pc = "look"]]
    /\ UNCHANGED <<was_pressed, last_release, last_trigger, now, events,
                   shown>>
    /\ UNCHANGED <<file, exists, clock, last, w, u, base, response>>
    /\ UNCHANGED watch_vars

\* the block reads Instant::now() and the statics and takes its branch
look(h, dt) ==
    LET t == now + dt
        s == step_of(h, gesture, th[h].option_pressed, t)
    IN  /\ th[h].pc = "look"
        /\ now' = t
        /\ th' = [th EXCEPT ![h] = [@ EXCEPT
                     !.pc = IF s.fired THEN "lock_app" ELSE "write",
                     !.at = t, !.copy = gesture, !.next = s]]
        /\ UNCHANGED <<was_pressed, last_release, last_trigger, events,
                       shown, holder>>
        /\ UNCHANGED <<file, exists, clock, last, w, u, base, response>>
        /\ UNCHANGED watch_vars

\* APP_HANDLE.lock().unwrap() (lib.rs:401, 438)
acquire_app(h) ==
    /\ th[h].pc = "lock_app"
    /\ holder["APP_HANDLE"] = "none"
    /\ holder' = [holder EXCEPT !["APP_HANDLE"] = h]
    /\ th' = [th EXCEPT ![h] = [@ EXCEPT !.pc = "emit"]]
    /\ UNCHANGED <<was_pressed, last_release, last_trigger, now, events,
                   shown>>
    /\ UNCHANGED <<file, exists, clock, last, w, u, base, response>>
    /\ UNCHANGED watch_vars

\* handle.emit("show-window-at-mouse", ()); the guard of APP_HANDLE is
\* dropped at the end of the `if let`
emit(h) ==
    /\ th[h].pc = "emit"
    /\ shown' = Append(shown, th[h].at)
    /\ holder' = [holder EXCEPT !["APP_HANDLE"] = "none"]
    /\ th' = [th EXCEPT ![h] = [@ EXCEPT !.pc = "write"]]
    /\ UNCHANGED <<was_pressed, last_release, last_trigger, now, events>>
    /\ UNCHANGED <<file, exists, clock, last, w, u, base, response>>
    /\ UNCHANGED watch_vars

\* the assignments to *was_pressed, *last_release and *last_trigger
write(h) ==
    /\ th[h].pc = "write"
    /\ was_pressed' = th[h].next.was_pressed
    /\ last_release' = th[h].next.last_release
    /\ last_trigger' = th[h].next.last_trigger
    /\ events' = Append(events, Event("flags", h, th[h].option_pressed,
                                      th[h].at))
    /\ th' = [th EXCEPT ![h] = [@ EXCEPT !.pc = "unlock"]]
    /\ UNCHANGED <<now, shown, holder>>
    /\ UNCHANGED <<file, exists, clock, last, w, u, base, response>>
    /\ UNCHANGED watch_vars

\* the block returns: its three guards are dropped
unlock(h) ==
    /\ th[h].pc = "unlock"
    /\ holder' = [m \in Locks |-> IF holder[m] = h THEN "none" ELSE holder[m]]
    /\ th' = [th EXCEPT ![h] = NotHandling]
    /\ UNCHANGED <<was_pressed, last_release, last_trigger, now, events,
                   shown>>
    /\ UNCHANGED <<file, exists, clock, last, w, u, base, response>>
    /\ UNCHANGED watch_vars

NextLocks ==
    \/ \E h \in Handlers, option_pressed \in BOOLEAN :
           deliver(h, option_pressed)
    \/ \E h \in Handlers : acquire(h)
    \/ \E h \in Handlers, dt \in Delays : look(h, dt)
    \/ \E h \in Handlers : acquire_app(h)
    \/ \E h \in Handlers : emit(h)
    \/ \E h \in Handlers : write(h)
    \/ \E h \in Handlers : unlock(h)

SpecLocks == Init /\ [][NextLocks]_vars

----------------------------------------------------------------------------
\* SpecConc: the watcher thread runs save_entry while the UI thread runs
\* toggle_pin or clear_all_history.  Each call is two steps, its
\* load_history and its save_history (or remove_file); nothing in the source
\* orders the steps of one thread against those of the other.  `base` is the
\* store from which the current pair of calls started.

\* watcher: let mut history = load_history(); ... up to the call of save_history
w_load(content) ==
    LET t == clock + 1
        history == load_history(file, exists)
    IN  /\ w.pc = "idle"
        /\ clock < MaxClock
        /\ clock' = t
        /\ w' = [Idle EXCEPT !.pc = "loaded", !.op = "save_entry",
                             !.content = content, !.key = t,
                             !.history = save_entry_history(history, t, content)]
        /\ UNCHANGED <<file, exists, last, u, base>>
        /\ UNCHANGED rest

\* watcher: save_history(&history)
w_save ==
    /\ w.pc = "loaded"
    /\ file' = save_history_file(file, w.history, 0)
    /\ exists' = save_history_exists(exists, 0)
    /\ w' = [w EXCEPT !.pc = "done", !.res = save_history_res(0)]
    /\ UNCHANGED <<clock, last, u, base>>
    /\ UNCHANGED rest

\* UI: toggle_pin up to the call of save_history, or its early return
u_load_toggle(t, pinned) ==
    LET history == load_history(file, exists)
        i == find_by_timestamp(history, to_rfc3339(t))
        call == [Idle EXCEPT !.op = "toggle_pin", !.key = t, !.flag = pinned]
    IN  /\ u.pc = "idle"
        /\ u' = IF i = 0
                THEN [call EXCEPT !.pc = "done", !.res = "NotFound"]
                ELSE [call EXCEPT !.pc = "loaded",
                                  !.history = set_pinned(history, i, pinned)]
        /\ UNCHANGED <<file, exists, clock, last, w, base>>
        /\ UNCHANGED rest

\* UI: clear_all_history up to `if pinned.is_empty()`
u_load_clear ==
    /\ u.pc = "idle"
    /\ u' = [Idle EXCEPT !.pc = "loaded", !.op = "clear_all_history",
                         !.history = clear_keep(load_history(file, exists))]
    /\ UNCHANGED <<file, exists, clock, last, w, base>>
    /\ UNCHANGED rest

\* UI: save_history(&history), or remove_file when clear_all_history found
\* nothing pinned
u_save ==
    /\ u.pc = "loaded"
    /\ IF u.op = "clear_all_history" /\ u.history = <<>>
       THEN /\ file' = <<>>
            /\ exists' = FALSE
       ELSE /\ file' = save_history_file(file, u.history, 0)
            /\ exists' = save_history_exists(exists, 0)
    /\ u' = [u EXCEPT !.pc = "done", !.res = save_history_res(0)]
    /\ UNCHANGED <<clock, last, w, base>>
    /\ UNCHANGED rest

\* both calls have returned; the next pair starts from the log as it is
returned ==
    /\ w.pc # "loaded" /\ u.pc # "loaded"
    /\ w.pc = "done" \/ u.pc = "done"
    /\ w' = Idle
    /\ u' = Idle
    /\ base' = load_history(file, exists)
    /\ UNCHANGED <<file, exists, clock, last>>
    /\ UNCHANGED rest

NextConc ==
    \/ \E content \in Contents : w_load(content)
    \/ w_save
    \/ \E t \in 1..MaxClock, pinned \in BOOLEAN : u_load_toggle(t, pinned)
    \/ u_load_clear
    \/ u_save
    \/ returned

SpecConc == Init /\ [][NextConc]_vars

----------------------------------------------------------------------------
\* What load() returns in the current state

Store == load_history(file, exists)

PinnedCount(history) == Cardinality({i \in Indices(history) : history[i].pinned})

Max(x, y) == IF x >= y THEN x ELSE y

RecordedOk == last.op = "save_entry" /\ last.res = "Ok"

\* C1: in every reachable state the persisted store holds at most one entry
\* per content value.
C1_OneEntryPerContent ==
    \A i, j \in Indices(Store) : Store[i].content = Store[j].content => i = j

\* C1 witness: a content that was already stored has just been recorded
\* again, next to another entry.
C1_Witness == RecordedOk /\ last.existed /\ Len(Store) >= 2

\* C2: in every reachable state the number of stored entries is at most
\* max(MAX_HISTORY_ENTRIES, number of pinned entries).
C2_SizeBound ==
    Len(Store) <= Max(MAX_HISTORY_ENTRIES, PinnedCount(Store))

\* C2 witness: a record has just evicted an entry from a full store that
\* holds a pinned entry.
C2_Witness ==
    /\ RecordedOk /\ last.dropped = 1
    /\ Len(Store) = MAX_HISTORY_ENTRIES
    /\ PinnedCount(Store) >= 1

----------------------------------------------------------------------------
\* Record steps: save_entry(c, 0) is a call that returns Ok; it stamps the
\* entry with the new clock reading clock'.

Entry(t, content, pinned) ==
    [timestamp |-> t, content |-> content, pinned |-> pinned]

Holds(history, content) == \E e \in Range(history) : e.content = content

EntryOf(history, content) ==
    CHOOSE e \in Range(history) : e.content = content

Without(history, content) ==
    SelectSeq(history, LAMBDA e : e.content # content)

\* the store with the recorded entry added, before anything is evicted
Recorded(history, t, content) ==
    Append(Without(history, content),
           Entry(t, content,
                 Holds(history, content) /\ EntryOf(history, content).pinned))

\* C3: a record never removes a pinned entry: every entry pinned before
\* record(c, t) is still stored and pinned afterwards, and its timestamp is
\* unchanged unless its content is c.
C3_PinnedSurviveRecord ==
    [][\A c \in Contents :
           save_entry(c, 0) =>
               \A e \in Range(Store) :
                   e.pinned =>
                       \E k \in Range(Store') :
                           /\ k.content = e.content
                           /\ k.pinned
                           /\ (e.content # c => k.timestamp = e.timestamp)]_vars

\* C3 witness: a record has just evicted an entry from a store whose two
\* oldest entries are pinned.
C3_Witness ==
    /\ RecordedOk /\ last.dropped = 1 /\ ~last.existed
    /\ Len(Store) = MAX_HISTORY_ENTRIES
    /\ Store[1].pinned /\ Store[2].pinned

\* C4: record(c, t) on a store that holds c leaves exactly one entry for c,
\* with timestamp t and the old pinned flag, in the last position; the other
\* entries are the old ones in their old order.  Recording a at t3 on
\* [a@1, b@2] gives [b@2, a@t3].
C4_RecordExisting ==
    [][\A c \in Contents :
           (save_entry(c, 0) /\ Holds(Store, c)) =>
               /\ Len(Store') = Len(Store)
               /\ Store'[Len(Store')] = Entry(clock', c, EntryOf(Store, c).pinned)
               /\ SubSeq(Store', 1, Len(Store') - 1) = Without(Store, c)
               /\ Cardinality({i \in Indices(Store') : Store'[i].content = c}) = 1
               /\ (Store = <<Entry(1, "a", FALSE), Entry(2, "b", FALSE)>> /\ c = "a"
                       => Store' = <<Entry(2, "b", FALSE), Entry(clock', "a", FALSE)>>)]_vars

\* C4 witness: a, b, a were recorded, a being pinned before it was recorded
\* again; the store is [b@2, a@3 pinned].
C4_Witness ==
    /\ RecordedOk /\ last.existed
    /\ Store = <<Entry(2, "b", FALSE), Entry(3, "a", TRUE)>>

\* C5 (as claimed): after record(c, t) returns Ok, load() holds an entry with
\* content c and timestamp t.
C5_RecordThenLoad ==
    [][\A c \in Contents :
           save_entry(c, 0) => Entry(clock', c, FALSE) \in Range(Store')
                               \/ Entry(clock', c, TRUE) \in Range(Store')]_vars

\* C6: when record(c, t) takes the store over the cap, every entry it removes
\* is unpinned and is older than every unpinned entry that stays, and it
\* removes no more than needed to get back to max(cap, pinned count).
C6_EvictOldestUnpinned ==
    [][\A c \in Contents :
           LET all == Recorded(Store, clock', c)
               removed == Range(all) \ Range(Store')
           IN  (save_entry(c, 0) /\ Len(all) > MAX_HISTORY_ENTRIES) =>
                   /\ Range(Store') \subseteq Range(all)
                   /\ \A e \in removed : ~e.pinned
                   /\ \A e \in removed : \A k \in Range(Store') :
                          ~k.pinned => e.timestamp < k.timestamp
                   /\ Len(Store') = Max(MAX_HISTORY_ENTRIES, PinnedCount(all))]_vars

\* C6 witness: a record has just evicted an unpinned entry that was newer
\* than a pinned one, and two unpinned entries stay.
C6_Witness ==
    /\ RecordedOk /\ last.dropped = 1 /\ ~last.existed
    /\ Store[1].pinned
    /\ Len(unpinned_of(Store)) >= 2

\* C8: clear_all_history() followed by load() returns exactly the entries
\* that were pinned before the call, unchanged and in their old order.
C8_ClearKeepsPinned ==
    [][clear_all_history(0) =>
           Store' = SelectSeq(Store, LAMBDA e : e.pinned)]_vars

\* C8 witness: a clear has just removed an unpinned entry and left two
\* pinned ones.
C8_Witness ==
    /\ last.op = "clear_all_history" /\ last.res = "Ok"
    /\ last.dropped >= 1
    /\ Len(Store) >= 2

----------------------------------------------------------------------------
\* The scenario of C7, with cap = 3

\* the contents and pinned flags of a store, in storage order
Shape(history) ==
    [i \in Indices(history) |-> <<history[i].content, history[i].pinned>>]

Unpinned(contents) == [i \in Indices(contents) |-> <<contents[i], FALSE>>]

\* recording a, b, c, d in that order leaves b, c, d; pinning b then gives
\* b (pinned), c, d
ScenarioUpToPin ==
    /\ (Store = <<>> /\ save_entry("a", 0))
           => Shape(Store') = Unpinned(<<"a">>)
    /\ (Shape(Store) = Unpinned(<<"a">>) /\ save_entry("b", 0))
           => Shape(Store') = Unpinned(<<"a", "b">>)
    /\ (Shape(Store) = Unpinned(<<"a", "b">>) /\ save_entry("c", 0))
           => Shape(Store') = Unpinned(<<"a", "b", "c">>)
    /\ (Shape(Store) = Unpinned(<<"a", "b", "c">>) /\ save_entry("d", 0))
           => Shape(Store') = Unpinned(<<"b", "c", "d">>)
    /\ (Shape(Store) = Unpinned(<<"b", "c", "d">>)
            /\ toggle_pin(Store[1].timestamp, TRUE, 0))
           => Shape(Store') = <<<<"b", TRUE>>, <<"c", FALSE>>, <<"d", FALSE>>>>

BeforeE == <<<<"b", TRUE>>, <<"c", FALSE>>, <<"d", FALSE>>>>

\* C7 (as claimed): with cap = 3, recording a, b, c, d leaves {b, c, d}; then
\* pinning b and recording e leaves {b (pinned), c, d, e}, 4 entries.
C7_ScenarioAsClaimed ==
    [][MAX_HISTORY_ENTRIES = 3 =>
           /\ ScenarioUpToPin
           /\ (Shape(Store) = BeforeE /\ save_entry("e", 0))
                  => /\ Len(Store') = 4
                     /\ Range(Shape(Store')) =
                            {<<"b", TRUE>>, <<"c", FALSE>>, <<"d", FALSE>>,
                             <<"e", FALSE>>}]_vars

\* C7 (amended): with cap = 3, recording a, b, c, d leaves {b, c, d}; then
\* pinning b and recording e leaves {b (pinned), d, e}, 3 entries: the
\* pinned b takes one of the three places and c, the oldest unpinned entry,
\* is evicted.
C7_ScenarioAmended ==
    [][MAX_HISTORY_ENTRIES = 3 =>
           /\ ScenarioUpToPin
           /\ (Shape(Store) = BeforeE /\ save_entry("e", 0))
                  => /\ Len(Store') = 3
                     /\ Shape(Store') =
                            <<<<"b", TRUE>>, <<"d", FALSE>>, <<"e", FALSE>>>>]_vars

\* C7 witness: a, b, c, d were recorded at 1..4, b was pinned and e was
\* recorded at 5; the store is [b@2 pinned, d@4, e@5].
C7_Witness ==
    /\ MAX_HISTORY_ENTRIES = 3
    /\ RecordedOk /\ last.dropped = 1 /\ ~last.existed
    /\ Store = <<Entry(2, "b", TRUE), Entry(4, "d", FALSE), Entry(5, "e", FALSE)>>

----------------------------------------------------------------------------
\* C9: the watcher's record against the UI's toggle_pin or clear_all_history

\* what the UI call makes of a store when it runs alone
AfterUi(history) ==
    IF u.op = "clear_all_history" THEN SelectSeq(history, LAMBDA e : e.pinned)
    ELSE [i \in Indices(history) |->
              IF history[i].timestamp = u.key
              THEN Entry(history[i].timestamp, history[i].content, u.flag)
              ELSE history[i]]

UiSucceedsOn(history) ==
    u.op = "toggle_pin" => \E e \in Range(history) : e.timestamp = u.key

\* the stores the two calls give when one runs wholly before the other
SerialOutcomes ==
    LET recorded == save_entry_history(base, w.key, w.content)
    IN  (IF UiSucceedsOn(recorded) THEN {AfterUi(recorded)} ELSE {})
            \cup (IF UiSucceedsOn(base)
                  THEN {save_entry_history(AfterUi(base), w.key, w.content)}
                  ELSE {})

BothReturnedOk ==
    /\ w.pc = "done" /\ w.res = "Ok"
    /\ u.pc = "done" /\ u.res = "Ok"

\* C9 (as claimed): the load-modify-save sections of a record and of a
\* toggle_pin or clear_all_history exclude each other, so once both have
\* returned Ok the store is what the two calls give one after the other:
\* after a toggle_pin the recorded entry is stored and the toggled entry
\* carries the requested flag.
C9_BothReflected ==
    BothReturnedOk =>
        /\ Store \in SerialOutcomes
        /\ u.op = "toggle_pin" =>
               /\ \E e \in Range(Store) :
                      e.content = w.content /\ e.timestamp = w.key
               /\ \A e \in Range(Store) : e.timestamp = u.key => e.pinned = u.flag

\* C10 (as claimed): a record, toggle_pin or clear_all_history that fails
\* with an I/O error leaves the persisted store as it was.
C10_FailureLeavesStore ==
    [][\A fail \in AnyFailure \ {0} :
           /\ \A c \in Contents : save_entry(c, fail) => Store' = Store
           /\ \A t \in 1..MaxClock, pinned \in BOOLEAN :
                  toggle_pin(t, pinned, fail) => Store' = Store
           /\ clear_all_history(fail) => Store' = Store]_vars

----------------------------------------------------------------------------
\* Reading the log

\* the records of the lines of a log that are well formed, in file order
WellFormed(f) ==
    LET good == SelectSeq(f, LAMBDA line : line.utf8 /\ line.json)
    IN  [i \in 1..Len(good) |->
             Entry(good[i].timestamp, good[i].content, good[i].pinned)]

\* C11 (as claimed): load() returns the empty sequence for a log that is
\* missing or cannot be opened, and otherwise exactly the well-formed records
\* of the log in file order, those after a line that cannot be read or parsed
\* included.
C11_LoadSkipsBadLines ==
    [][\A open_ok \in BOOLEAN :
           load(open_ok) =>
               response'.entries =
                   IF exists /\ open_ok THEN WellFormed(file) ELSE <<>>]_vars

\* C19: get_history() returns the stored entries, each once, in the reverse
\* of storage order (the last stored entry first), with max_entries equal to
\* MAX_HISTORY_ENTRIES, and leaves the log as it was.
C19_GetHistory ==
    [][\A open_ok \in BOOLEAN :
           get_history(open_ok) =>
               LET stored == load_history(file, exists /\ open_ok)
                   entries == response'.entries
               IN  /\ Len(entries) = Len(stored)
                   /\ \A i \in Indices(stored) :
                          entries[i] = stored[Len(stored) + 1 - i]
                   /\ (stored # <<>> => entries[1] = stored[Len(stored)])
                   /\ response'.max_entries = MAX_HISTORY_ENTRIES
                   /\ file' = file /\ exists' = exists]_vars

\* C19 witness: get_history has returned three entries, the first of them
\* with a later timestamp than the last.
C19_Witness ==
    /\ response.op = "get_history"
    /\ Len(response.entries) = 3
    /\ response.entries[1].timestamp > response.entries[3].timestamp
    /\ response.entries = reverse(Store)

----------------------------------------------------------------------------
\* toggle_pin by timestamp key, and the order of the log

\* C12: toggle_pin(k, p) with a key that matches no stored entry returns an
\* error and leaves the log as it was; with a key that matches a stored
\* entry it returns Ok and that entry's pinned flag is p afterwards.
C12_TogglePin ==
    [][\A t \in 1..MaxClock, p \in BOOLEAN :
           (last'.op = "toggle_pin" /\ toggle_pin(t, p, 0)) =>
               IF \E e \in Range(Store) : to_rfc3339(e.timestamp) = to_rfc3339(t)
               THEN /\ last'.res = "Ok"
                    /\ \E e \in Range(Store') : e.timestamp = t
                    /\ \A e \in Range(Store') : e.timestamp = t => e.pinned = p
               ELSE /\ last'.res = "NotFound"
                    /\ file' = file /\ exists' = exists]_vars

\* C12 witness: toggle_pin has just returned "Entry not found" on a store
\* whose second entry an earlier toggle_pin pinned.
C12_Witness ==
    /\ last.op = "toggle_pin" /\ last.res = "NotFound"
    /\ Len(Store) >= 2
    /\ ~Store[1].pinned /\ Store[2].pinned

\* C20: in every reachable state the entries of the persisted log are in
\* non-decreasing timestamp order, oldest first.
C20_LogSorted ==
    \A i, j \in Indices(Store) :
        i < j => Store[i].timestamp <= Store[j].timestamp

\* C20 witness: a record has just trimmed a full store that holds a pinned
\* entry older than an unpinned one, so the pinned entries were put behind
\* the unpinned ones and the Vec was sorted.
C20_Witness ==
    /\ RecordedOk /\ last.dropped >= 1
    /\ Len(Store) = MAX_HISTORY_ENTRIES
    /\ Store[1].pinned /\ ~Store[Len(Store)].pinned
    /\ Len(file) = Len(Store)

----------------------------------------------------------------------------
\* The "clipboard-changed" events

\* the poll is one in which a record is attempted
Attempts(read) ==
    /\ read # None /\ read[1] # ""
    /\ last_content = None \/ last_content[1] # read[1]

\* C17: the watcher emits "clipboard-changed" exactly once for a poll whose
\* record succeeds, with the log already rewritten, and emits nothing for a
\* poll in which no record is attempted or the record fails.
C17_EmitAfterRecord ==
    [][\A read \in Reads, fail \in AnyFailure :
           poll(read, fail) =>
               IF Attempts(read) /\ fail = 0
               THEN /\ emitted' = Append(emitted, Entry(clock', read[1], FALSE))
                    /\ exists'
                    /\ Store' = save_entry_history(Store, clock', read[1])
               ELSE emitted' = emitted]_vars

\* C17 witness: the third record has just failed, after two records that
\* succeeded and were announced.
C17_Witness ==
    /\ polled = [attempted |-> TRUE, res |-> "IoError"]
    /\ Len(emitted) = 2
    /\ clock = 3

\* C18 (as claimed): every clear_all_history() that returns Ok emits exactly
\* one event on the stream the recorded entries are announced on.
C18_ClearEmits ==
    [][clear_all_history(0) => Len(emitted') = Len(emitted) + 1]_vars

----------------------------------------------------------------------------
\* The double tap of Option

Down(e) == e.kind = "flags" /\ e.option_pressed

Up(e) == e.kind = "flags" /\ ~e.option_pressed

\* a modifier-up event that met the tracked state "down"
Release(e) == Up(e) /\ e.was_pressed

\* the triggers emitted from the i-th event to the k-th
TriggersIn(i, k) ==
    {n \in Indices(shown) : events[i].at <= shown[n] /\ shown[n] <= events[k].at}

\* a trigger was emitted while the k-th event was handled
FiredAt(k) ==
    events[k].kind = "flags" /\ \E n \in Indices(shown) : shown[n] = events[k].at

\* the pending release the k-th event left
PendingAfter(k) ==
    IF k < Len(events) THEN events[k + 1].pending ELSE last_release

\* events i .. i + 3 are two down/up taps of Option, the first met with no
\* pending release, the two releases less than the threshold apart
TwoTaps(i) ==
    /\ events[i].pending = None
    /\ Down(events[i]) /\ Up(events[i + 1])
    /\ Down(events[i + 2]) /\ Up(events[i + 3])
    /\ events[i + 3].at - events[i + 1].at < DOUBLE_TAP_THRESHOLD_MS

\* C13: starting with no pending release, two down/up taps of Option whose
\* releases are less than 400 ms apart, with no event between them, give
\* exactly one trigger, emitted at the second release, whichever of
\* global_block and local_block handles each event.
C13_DoubleTapFiresOnce ==
    \A i \in 1..(Len(events) - 3) :
        TwoTaps(i) =>
            /\ Cardinality(TriggersIn(i, i + 3)) = 1
            /\ FiredAt(i + 3)

\* C13 witness: the first tap came through global_block, the second through
\* local_block 200 ms later, and one trigger was emitted, at the second
\* release.
C13_Witness ==
    /\ Len(events) >= 4
    /\ TwoTaps(1)
    /\ events[1].channel = "global" /\ events[2].channel = "global"
    /\ events[3].channel = "local" /\ events[4].channel = "local"
    /\ shown = <<events[4].at>>

\* C14 (as claimed): on either channel a release that comes 400 ms or more
\* after the pending release emits no trigger and becomes the pending
\* release, and a release that comes less than 400 ms after the pending
\* release emits one.
C14_LateReleaseIsNewBaseline ==
    \A k \in Indices(events) :
        (Release(events[k]) /\ events[k].pending # None) =>
            IF events[k].at - events[k].pending[1] >= DOUBLE_TAP_THRESHOLD_MS
            THEN ~FiredAt(k) /\ PendingAfter(k) = Some(events[k].at)
            ELSE FiredAt(k)

\* C15 (as claimed): the press of a key that is not a modifier clears the
\* pending release, so of two releases of Option less than 400 ms apart with
\* such a press between them the second emits no trigger.
C15_OtherKeyCancels ==
    /\ \A j \in Indices(events) :
           events[j].kind = "key" => PendingAfter(j) = None
    /\ \A i, j, k \in Indices(events) :
           (/\ i < j /\ j < k
            /\ Release(events[i]) /\ events[j].kind = "key"
            /\ Release(events[k])
            /\ events[k].at - events[i].at < DOUBLE_TAP_THRESHOLD_MS)
               => ~FiredAt(k)

\* C16: every trigger is emitted while a modifier-up event is handled that
\* met the tracked state "down" and a pending release less than 400 ms old,
\* and no event emits two.
C16_TriggerOnlyOnDoubleTap ==
    /\ \A n \in Indices(shown) :
           \E k \in Indices(events) :
               /\ events[k].at = shown[n]
               /\ Release(events[k])
               /\ events[k].pending # None
               /\ shown[n] - events[k].pending[1] < DOUBLE_TAP_THRESHOLD_MS
    /\ \A n, m \in Indices(shown) : shown[n] = shown[m] => n = m

\* C16 witness: one trigger was emitted, and a modifier-up event that met
\* the tracked state "up" emitted none.
C16_Witness ==
    /\ Len(shown) = 1
    /\ \E k \in Indices(events) :
           Up(events[k]) /\ ~events[k].was_pressed /\ ~FiredAt(k)

----------------------------------------------------------------------------
\* C25, C26 (SpecGesture)

\* the i-th and the j-th event are releases with no release between them
NextRelease(i, j) ==
    /\ i < j
    /\ Release(events[i]) /\ Release(events[j])
    /\ \A h \in (i + 1)..(j - 1) : ~Release(events[h])

\* the i-th event is a release that no release precedes by less than the
\* threshold: the first of a series of rapid releases
FirstOfSeries(i) ==
    /\ Release(events[i])
    /\ \A h \in 1..(i - 1) :
           Release(events[h]) =>
               events[i].at - events[h].at >= DOUBLE_TAP_THRESHOLD_MS

\* C25 (as claimed): of three releases of Option, each less than 400 ms after
\* the one before, the first emits no trigger, the second emits one and
\* clears the pending release, and the third emits none and becomes the
\* pending release.  A handler cannot see the events that follow, so the
\* statement about the first two releases is made of every such pair.
C25_TripleTapFiresOnce ==
    /\ \A i, j \in Indices(events) :
           (/\ FirstOfSeries(i) /\ NextRelease(i, j)
            /\ events[j].at - events[i].at < DOUBLE_TAP_THRESHOLD_MS)
               => /\ ~FiredAt(i)
                  /\ FiredAt(j)
                  /\ PendingAfter(j) = None
    /\ \A j, k \in Indices(events) :
           (/\ FiredAt(j) /\ NextRelease(j, k)
            /\ events[k].at - events[j].at < DOUBLE_TAP_THRESHOLD_MS)
               => /\ ~FiredAt(k)
                  /\ PendingAfter(k) = Some(events[k].at)

\* the statics and the triggers emitted after the first k events when every
\* one of them is handled by global_block
RECURSIVE AllGlobal(_)
AllGlobal(k) ==
    IF k = 0
    THEN [state |-> [was_pressed |-> FALSE, last_release |-> None,
                     last_trigger |-> None, fired |-> FALSE],
          shown |-> <<>>]
    ELSE LET before == AllGlobal(k - 1)
             e == events[k]
             s == IF e.kind = "flags"
                  THEN global_step(before.state, e.option_pressed, e.at)
                  ELSE [before.state EXCEPT !.fired = FALSE]
         IN  [state |-> s,
              shown |-> IF s.fired THEN Append(before.shown, e.at)
                        ELSE before.shown]

\* C26 (as claimed): whichever of global_block and local_block handled each
\* event, the statics and the triggers emitted are those of the same events
\* handled by global_block alone.
C26_SameTransition ==
    LET g == AllGlobal(Len(events))
    IN  /\ was_pressed = g.state.was_pressed
        /\ last_release = g.state.last_release
        /\ last_trigger = g.state.last_trigger
        /\ shown = g.shown

----------------------------------------------------------------------------
\* C21, C22, C23 (SpecWatch)

\* get_text() failed or returned the empty text
NothingRead(read) == read = None \/ read = Some("")

\* the last_content the i-th loop iteration left
LastSeenAfter(i) ==
    IF i < Len(polls) THEN polls[i + 1].last_seen ELSE last_content

\* the loop iterations i .. j that called save_entry
Recorders(i, j) == {k \in i..j : polls[k].attempted}

NonEmptyTexts == Texts \ {""}

\* C21: a loop iteration whose read failed or returned the empty text calls
\* save_entry not and leaves last_content as it was; so of three iterations
\* in a row that read A, nothing, A (A not empty and new at the first) only
\* the first calls save_entry, and of three that read A, nothing, B
\* (B not empty, not A) the first and the third do, with A and with B.
C21_EmptyReadIsIgnored ==
    /\ \A i \in Indices(polls) :
           NothingRead(polls[i].read) =>
               /\ ~polls[i].attempted
               /\ LastSeenAfter(i) = polls[i].last_seen
    /\ \A i \in 1..(Len(polls) - 2) : \A a, b \in NonEmptyTexts :
           (/\ polls[i].read = Some(a)
            /\ polls[i].last_seen # Some(a)
            /\ NothingRead(polls[i + 1].read)
            /\ polls[i + 2].read = Some(b))
               => Recorders(i, i + 2) = IF a = b THEN {i} ELSE {i, i + 2}

\* C21 witness: four loop iterations have read "a", the empty text, "a" and
\* "b"; the first and the last called save_entry.
C21_Witness ==
    /\ Len(polls) = 4
    /\ polls[1].read = Some("a") /\ polls[2].read = Some("")
    /\ polls[3].read = Some("a") /\ polls[4].read = Some("b")
    /\ Recorders(1, 4) = {1, 4}

\* the loop iterations i .. j all read the text x
AllRead(i, j, x) == \A k \in i..j : polls[k].read = Some(x)

\* no loop iteration after the i-th has read a non-empty text other than x
NoOtherTextSince(i, x) ==
    \A k \in (i + 1)..Len(polls) :
        NothingRead(polls[k].read) \/ polls[k].read = Some(x)

\* C22: of loop iterations in a row that read the same non-empty text only
\* the first calls save_entry; and while no other non-empty text has been
\* read since an iteration recorded x, an entry with content x has the
\* timestamp of that iteration.
C22_SameTextRecordedOnce ==
    /\ \A i, j \in Indices(polls) : \A x \in NonEmptyTexts :
           (i < j /\ AllRead(i, j, x)) => Recorders(i + 1, j) = {}
    /\ \A i \in Indices(polls) : \A x \in NonEmptyTexts :
           (/\ polls[i].read = Some(x)
            /\ polls[i].attempted /\ polls[i].res = "Ok"
            /\ NoOtherTextSince(i, x))
               => \A n \in Indices(Store) :
                      Store[n].content = x => Store[n].timestamp = polls[i].at

\* C22 witness: "b" was recorded, then "a" at the second iteration, and two
\* more iterations read "a"; the entry "a" is stored with the timestamp of
\* the second iteration.
C22_Witness ==
    /\ Len(polls) = 4
    /\ polls[1].read = Some("b") /\ AllRead(2, 4, "a")
    /\ Recorders(1, 4) = {1, 2}
    /\ \E n \in Indices(Store) :
           Store[n].content = "a" /\ Store[n].timestamp = polls[2].at

\* C23: when save_entry fails for a new text c, last_content is c all the
\* same, and no later iteration calls save_entry until one reads a non-empty
\* text other than c.
C23_FailedRecordNotRetried ==
    \A i \in Indices(polls) :
        (polls[i].attempted /\ polls[i].res = "IoError") =>
            /\ LastSeenAfter(i) = polls[i].read
            /\ \A j \in (i + 1)..Len(polls) :
                   (\A k \in (i + 1)..j :
                        NothingRead(polls[k].read)
                            \/ polls[k].read = polls[i].read)
                       => ~polls[j].attempted

\* C23 witness: save_entry failed for "a", the next iteration read "a" again
\* and called nothing, the one after read "b" and called save_entry.
C23_Witness ==
    /\ Len(polls) >= 3
    /\ polls[1].read = Some("a") /\ polls[1].res = "IoError"
    /\ polls[2].read = Some("a") /\ ~polls[2].attempted
    /\ polls[3].read = Some("b") /\ polls[3].attempted

----------------------------------------------------------------------------
\* C24 (SpecStop)

\* the loop iterations whose body ran while the flag was false
RanAfterStop == {i \in Indices(polls) : ~polls[i].running}

\* C24: once `running` is false the monitor thread ends; at the loop head it
\* enters the body no more, at most the one iteration it was in runs to its
\* end, and after the thread has ended the log and the count of iterations
\* stay as they are.
C24_StopsAfterQuit ==
    /\ (~running) ~> (wpc = "exited")
    /\ [](Cardinality(RanAfterStop) <= 1)
    /\ [][/\ (~running /\ wpc = "head") => wpc' # "body"
          /\ wpc = "exited" =>
                 /\ wpc' = "exited"
                 /\ polls' = polls
                 /\ file' = file /\ exists' = exists]_vars

\* C24 witness: the flag was set false while the second iteration was in its
\* body; that iteration recorded a text, and the thread has ended.
C24_Witness ==
    /\ wpc = "exited"
    /\ Len(polls) = 2
    /\ polls[1].running /\ ~polls[2].running
    /\ polls[2].attempted /\ polls[2].res = "Ok"

----------------------------------------------------------------------------
\* C30 (SpecClip)

\* this step is a loop iteration of the monitor that read the text x
PolledText(x) ==
    /\ Len(polls') = Len(polls) + 1
    /\ polls'[Len(polls')].read = Some(x)

\* C30: when the clipboard holds x, put there by copy_to_clipboard, and an
\* entry with content x is stored, the loop iteration that reads x leaves,
\* if x is not last_content, exactly one entry with content x, the last of
\* the store and pinned as the entry was; if x is last_content it leaves the
\* store as it was.
C30_CopyBackMovesEntry ==
    [][\A x \in NonEmptyTexts :
           (PolledText(x) /\ clipboard = x /\ Holds(Store, x)) =>
               IF last_content = Some(x)
               THEN Store' = Store
               ELSE /\ Len(Store') = Len(Store)
                    /\ Cardinality({n \in Indices(Store') :
                                        Store'[n].content = x}) = 1
                    /\ Store'[Len(Store')].content = x
                    /\ Store'[Len(Store')].pinned = EntryOf(Store, x).pinned
                    /\ Store'[Len(Store')].timestamp = clock'
                    /\ Without(Store', x) = Without(Store, x)]_vars

\* C30 witness: "a" and "b" were recorded, "a" was pinned and put back on
\* the clipboard by copy_to_clipboard; the third loop iteration read it and
\* the store is "b", then "a" pinned with the timestamp of that iteration.
C30_Witness ==
    /\ Len(polls) = 3
    /\ polls[3].read = Some("a") /\ polls[3].last_seen = Some("b")
    /\ polls[3].attempted
    /\ Store = <<Entry(2, "b", FALSE), Entry(3, "a", TRUE)>>

----------------------------------------------------------------------------
\* C27 (SpecPin)

\* C27: a toggle_pin(k, p) that returns Ok leaves the number of entries,
\* their order, and every entry's content and timestamp as they were; one
\* entry has the timestamp k, and the pinned flag of every other entry is as
\* it was.
C27_TogglePinFrame ==
    [][\A t \in 1..MaxClock, p \in BOOLEAN :
           (last'.op = "toggle_pin" /\ last'.res = "Ok"
                /\ toggle_pin(t, p, 0)) =>
               /\ Len(Store') = Len(Store)
               /\ Cardinality({n \in Indices(Store) :
                                   Store[n].timestamp = t}) = 1
               /\ \A n \in Indices(Store) :
                      /\ Store'[n].content = Store[n].content
                      /\ Store'[n].timestamp = Store[n].timestamp
                      /\ Store[n].timestamp # t =>
                             Store'[n].pinned = Store[n].pinned]_vars

\* C27 witness: toggle_pin has just returned Ok on a store of three entries
\* of which the second is pinned and the others are not.
C27_Witness ==
    /\ last.op = "toggle_pin" /\ last.res = "Ok"
    /\ Len(Store) = 3
    /\ ~Store[1].pinned /\ Store[2].pinned /\ ~Store[3].pinned

----------------------------------------------------------------------------
\* C28 (SpecCrash)

\* C28 (as claimed): when the process stops inside a record, a toggle_pin or
\* a clear_all_history, the log read at the next start is the store as it
\* was before the call or the store as the call would have left it.
C28_CrashLeavesOldOrNew ==
    [][\A call \in Calls, at \in 0..MAX_HISTORY_ENTRIES :
           (last'.res = "Killed" /\ killed(call, at)) =>
               \/ Store' = Store
               \/ Store' = to_save(call)[1]]_vars

----------------------------------------------------------------------------
\* C29 (SpecLocks)

\* the block h is not waiting for a Mutex that is held
CanStep(h) ==
    /\ th[h].pc = "lock" => holder[lock_order(h)[th[h].k]] = "none"
    /\ th[h].pc = "lock_app" => holder["APP_HANDLE"] = "none"

\* the block h is between its read of the statics and its return
InBody(h) == th[h].pc \in {"look", "lock_app", "emit", "write", "unlock"}

\* C29: with global_block and local_block on two threads, whenever a block
\* is running some running block can take its next step; either block holds
\* a Mutex only while it holds those before it in the order
\* OPTION_WAS_PRESSED, LAST_OPTION_RELEASE, LAST_TRIGGER, APP_HANDLE; the
\* two blocks are never both between the read and the return, and the
\* statics a block assigns from are still as it read them.
C29_NoDeadlockAtomic ==
    /\ Handling # {} => \E h \in Handling : CanStep(h)
    /\ \A h \in Handlers :
           /\ holder["LAST_OPTION_RELEASE"] = h =>
                  holder["OPTION_WAS_PRESSED"] = h
           /\ holder["LAST_TRIGGER"] = h => holder["LAST_OPTION_RELEASE"] = h
           /\ holder["APP_HANDLE"] = h => holder["LAST_TRIGGER"] = h
    /\ ~(InBody("global") /\ InBody("local"))
    /\ \A h \in Handlers :
           th[h].pc \in {"lock_app", "emit", "write"} =>
               th[h].copy = gesture

\* C29 witness: local_block holds the three statics and APP_HANDLE and is
\* about to emit, while global_block, holding nothing, waits for the first
\* static.
C29_Witness ==
    /\ th["local"].pc = "emit"
    /\ th["global"].pc = "lock" /\ th["global"].k = 1
    /\ holder["APP_HANDLE"] = "local"

====
